---- MODULE Spec2Model ----
(***************************************************************************)
(* The translate-and-speak pipeline of src/App.tsx: the segment queue and  *)
(* its single drain loop (enqueueTranslation / processQueue), the two      *)
(* stages (translateWithGemini, speakWithGemini), the lazily created       *)
(* audio streamer (initAudioStreamer) and the two transcript sources       *)
(* (speech recognition handlers, imported Zoom transcript timers).         *)
(*                                                                         *)
(* One action is one event-loop turn: a handler runs from its entry to the *)
(* next await of a pending promise.  An await of an already settled        *)
(* promise continues in the microtask queue of the same turn, so it does   *)
(* not end the action.  Every function of the component is a closure of    *)
(* the render that created it: what it reads of React state (apiKey,       *)
(* selectedOutputDeviceId) is the value of that render, carried here in    *)
(* the frame of the suspended call; refs (translationQueue,                *)
(* processingQueue, audioStreamerRef, recognitionRef) are shared.          *)
(*                                                                         *)
(* Text is a sequence of one-character strings.  An optional value is a    *)
(* sequence of length at most one (None, Some(x)).                         *)
(***************************************************************************)
EXTENDS Integers, Sequences, FiniteSets, TLC

\* Bounds of the model (not program constants).
MaxSeg == 2
MaxStarts == 1
MaxImports == 1
QueueMaxSeg == 3
LiveMaxSeg == 2
LiveMaxStarts == 1
LiveMaxResults == 2
DevMaxRefreshes == 2
DevMaxStarts == 2
ImportMaxSeg == 4
ImportMaxImports == 2
ParseMaxLines == 4
SpeechMaxSeg == 2
SessionMaxSeg == 2
SessionMaxStarts == 2
SpeechMaxParts == 3

None == << >>
Some(x) == << x >>

\* ------------------------------------------------------------------ text

\* the characters String.prototype.trim and the regex class \s remove
IsSpace(c) == c \in {" ", "\n", "\t", "\r"}

RECURSIVE TrimStart(_)
TrimStart(s) == IF s # << >> /\ IsSpace(Head(s)) THEN TrimStart(Tail(s)) ELSE s

RECURSIVE TrimEnd(_)
TrimEnd(s) ==
  IF s # << >> /\ IsSpace(s[Len(s)]) THEN TrimEnd(SubSeq(s, 1, Len(s) - 1)) ELSE s

\* String.prototype.trim
Trim(s) == TrimEnd(TrimStart(s))

\* JavaScript truthiness of a string: only "" is falsy.
Truthy(s) == s # << >>

StartsWith(s, prefix) == Len(s) >= Len(prefix) /\ SubSeq(s, 1, Len(prefix)) = prefix

\* ------------------------------------------------------------ the state

VARIABLES
  apiKey,                  \* useState apiKey, of the latest render
  selectedOutputDeviceId,  \* useState selectedOutputDeviceId, of the latest render
  translationQueue,        \* translationQueue.current: segments [seq, text]
  processingQueue,         \* processingQueue.current: the draining flag
  status,                  \* useState status
  translations,            \* useState translations: [seq, source, translated]
  drains,                  \* processQueue calls suspended at a network await
  popped,                  \* seq of every segment shifted off the queue, in order
  trace,                   \* trace[seq]: what was done for segment seq, in order
  fed,                     \* addPCM16 calls, in order: [seq, part, sid, resumed, bytes]
  audioStreamerRef,        \* audioStreamerRef.current: 0 (null) or a streamer id
  streamers,               \* every AudioStreamer constructed: [resumed, sink]
  inits,                   \* initAudioStreamer calls suspended at an await
  recognitionRef,          \* recognitionRef.current: None or Some([key])
  recState,                \* the recognition session: idle, starting, running, stopping
  isRecognizing,           \* useState isRecognizing
  srSupported,             \* window.SpeechRecognition || window.webkitSpeechRecognition
  isFetchingZoom,          \* useState isFetchingZoom
  zoomCall,                \* fetchZoomTranscript suspended at a fetch: None or Some(frame)
  timers,                  \* pending setTimeout callbacks, one sequence per import
  importLog,               \* ghost: per import, its sentences and the timers that fired
  finalTranscript,         \* useState finalTranscript
  interimTranscript,       \* useState interimTranscript
  inputDevices,            \* useState inputDevices
  outputDevices,           \* useState outputDevices
  enumerations,            \* enumerateAudioDevices calls suspended at their await
  canEnumerate,            \* navigator.mediaDevices.enumerateDevices exists
  refreshLog,              \* ghost: the enumerateAudioDevices calls that ended, in order
  document,                \* a transcript document handed to parseVTT
  parsed,                  \* what parseVTT returned for it: None or Some(text)
  clicks                   \* ghost: the clicks on Start and on the Zoom button so far

pipeVars == << translationQueue, processingQueue, status, translations, drains,
               popped, trace, fed >>
audioVars == << audioStreamerRef, streamers, inits >>
recVars == << recognitionRef, recState, isRecognizing, srSupported >>
zoomVars == << isFetchingZoom, zoomCall, timers, importLog >>
viewVars == << finalTranscript, interimTranscript >>
deviceVars == << inputDevices, outputDevices, enumerations, canEnumerate, refreshLog >>
parseVars == << document, parsed >>
extraVars == << viewVars, deviceVars, parseVars >>
vars == << apiKey, selectedOutputDeviceId, extraVars, pipeVars, audioVars, recVars,
          zoomVars, clicks >>

\* ------------------------------------------------------- status strings
\* A status is the sequence of the pieces the code concatenates.

Ready == << "Ready" >>
Translating == << "Translating..." >>
Speaking == << "Speaking..." >>
Idle == << "Idle" >>
MissingKey == << "Missing Gemini API Key" >>
ProcessError(message) == << "Error: ", message >>

\* Ghost events of a segment's trace that are not status updates.
EvEnqueue(text) == << "enqueueTranslation" >> \o text
EvTranslate == << "translateWithGemini" >>
EvNetTranslate == << "generateContent", "translate" >>
EvSpeak == << "speakWithGemini" >>
EvNetSpeak == << "generateContent", "tts" >>
EvResult == << "setTranslations" >>
EvFed == << "addPCM16" >>
EvTtsError == << "console.error", "TTS Error" >>
EvTranslateError == << "console.error", "Translation API error" >>

\* --------------------------------------------------- the pipeline queue
\* The synchronous code of the queue works on a record of the pipeline's
\* variables, so that a whole turn (several calls deep) is one value.

Pipe ==
  [ translationQueue |-> translationQueue, processingQueue |-> processingQueue,
    status |-> status, translations |-> translations, drains |-> drains,
    popped |-> popped, trace |-> trace, fed |-> fed ]

SetPipe(p) ==
  /\ translationQueue' = p.translationQueue
  /\ processingQueue' = p.processingQueue
  /\ status' = p.status
  /\ translations' = p.translations
  /\ drains' = p.drains
  /\ popped' = p.popped
  /\ trace' = p.trace
  /\ fed' = p.fed

SetStatus(p, s) == [p EXCEPT !.status = s]

Note(p, seq, ev) == [p EXCEPT !.trace[seq] = Append(@, ev)]

\* setStatus issued while segment seq is being processed
SegStatus(p, seq, s) == Note(SetStatus(p, s), seq, s)

Suspend(p, pc, chunk, key, translated) ==
  [p EXCEPT !.drains = @ \cup
     {[pc |-> pc, chunk |-> chunk, key |-> key, translated |-> translated]}]

RECURSIVE LoopFrom(_, _)

\* speakWithGemini(text), from its entry to its await
SpeakCall(p, chunk, translated, key) ==
  LET p1 == Note(p, chunk.seq, EvSpeak)
  IN IF ~Truthy(key)
     THEN LoopFrom(p1, key)
     ELSE Suspend(Note(p1, chunk.seq, EvNetSpeak), "speak", chunk, key, translated)

\* translateWithGemini(text), from its entry to its await; with no key the
\* promise it returns is already resolved with null and processQueue goes on
TranslateCall(p, chunk, key) ==
  LET p1 == Note(p, chunk.seq, EvTranslate)
  IN IF ~Truthy(key)
     THEN LoopFrom(SegStatus(p1, chunk.seq, MissingKey), key)
     ELSE Suspend(Note(p1, chunk.seq, EvNetTranslate), "translate", chunk, key, << >>)

\* a buggy dequeue: Array.prototype.pop() takes the newest segment
DequeueLast(queue) ==
  [chunk |-> queue[Len(queue)], rest |-> SubSeq(queue, 1, Len(queue) - 1)]

\* a buggy dequeue that empties the buffer
DequeueAll(queue) == [chunk |-> Head(queue), rest |-> << >>]

\* translationQueue.current.shift()
Dequeue(queue) == [chunk |-> Head(queue), rest |-> Tail(queue)]

\* processQueue from the head of its while loop to the next pending await
LoopFrom(p, key) ==
  IF Len(p.translationQueue) > 0
  THEN LET chunk == Dequeue(p.translationQueue).chunk
           p1 == [p EXCEPT !.translationQueue = Dequeue(@).rest,
                           !.popped = Append(@, chunk.seq)]
       IN IF Truthy(chunk.text)
          THEN TranslateCall(SegStatus(p1, chunk.seq, Translating), chunk, key)
          ELSE LoopFrom(p1, key)
  ELSE [SetStatus(p, Idle) EXCEPT !.processingQueue = FALSE]

\* a buggy processQueue that never raises the draining flag
ProcessQueueNoFlag(p, key) == LoopFrom(p, key)

ProcessQueue(p, key) ==
  IF p.processingQueue
  THEN p
  ELSE LoopFrom([p EXCEPT !.processingQueue = TRUE], key)

\* a buggy enqueueTranslation that only pushes
EnqueueOnlyPush(p, text, key) ==
  IF ~Truthy(text)
  THEN p
  ELSE [p EXCEPT !.translationQueue =
                    Append(@, [seq |-> Len(p.trace) + 1, text |-> text]),
                 !.trace = Append(@, << EvEnqueue(text) >>)]

EnqueueTranslation(p, text, key) ==
  IF ~Truthy(text)
  THEN p
  ELSE LET seg == [seq |-> Len(p.trace) + 1, text |-> text]
           p1 == [p EXCEPT !.translationQueue = Append(@, seg),
                           !.trace = Append(@, << EvEnqueue(text) >>)]
       IN IF ~p1.processingQueue THEN ProcessQueue(p1, key) ELSE p1

\* response.text?.trim() || null
TranslateResult(resp) ==
  IF resp = None THEN None
  ELSE IF Truthy(Trim(resp[1])) THEN Some(Trim(resp[1])) ELSE None

\* a processQueue that speaks whatever translateWithGemini returned
AfterTranslateAlwaysSpeaks(p, fr, translated) ==
  SpeakCall(SegStatus(p, fr.chunk.seq, Speaking), fr.chunk,
            IF translated = None THEN << >> ELSE translated[1], fr.key)

\* processQueue after `await translateWithGemini(chunk)` returned
AfterTranslate(p, fr, translated) ==
  IF translated # None
  THEN LET p1 == [p EXCEPT !.translations = Append(@,
                     [seq |-> fr.chunk.seq, source |-> fr.chunk.text,
                      translated |-> translated[1]])]
           p2 == SegStatus(Note(p1, fr.chunk.seq, EvResult), fr.chunk.seq, Speaking)
       IN SpeakCall(p2, fr.chunk, translated[1], fr.key)
  ELSE LoopFrom(p, fr.key)

\* a buggy processQueue without try/catch: the error ends the call
AfterTranslateErrorUncaught(p, fr, message) == p

\* processQueue's catch block
AfterTranslateError(p, fr, message) ==
  LoopFrom(SegStatus(p, fr.chunk.seq, ProcessError(message)), fr.key)

AudioPrefix == << "a", "u", "d", "i", "o" >>

\* the test without the media type
IsInlinePart(part) == part.inlineData

\* part.inlineData && part.inlineData.mimeType.startsWith('audio')
IsAudioPart(part) == part.inlineData /\ StartsWith(part.mimeType, AudioPrefix)

\* the for loop over the response's parts, from part i on
RECURSIVE FeedParts(_, _, _, _)
FeedParts(p, fr, parts, i) ==
  IF i > Len(parts) THEN p
  ELSE IF IsAudioPart(parts[i]) /\ audioStreamerRef # 0
       THEN FeedParts(
              [Note(p, fr.chunk.seq, EvFed) EXCEPT !.fed = Append(@,
                 [seq |-> fr.chunk.seq, part |-> i, sid |-> audioStreamerRef,
                  resumed |-> streamers[audioStreamerRef].resumed,
                  bytes |-> parts[i].bytes])],
              fr, parts, i + 1)
       ELSE FeedParts(p, fr, parts, i + 1)

\* speakWithGemini after its await returned a response, then processQueue
AfterSpeak(p, fr, parts) ==
  LoopFrom(IF parts = None THEN p ELSE FeedParts(p, fr, parts[1], 1), fr.key)

\* speakWithGemini's catch block, then processQueue
AfterSpeakError(p, fr) == LoopFrom(Note(p, fr.chunk.seq, EvTtsError), fr.key)

Resume(fr) == [Pipe EXCEPT !.drains = @ \ {fr}]

\* ------------------------------------------------- the imported transcript

\* String.prototype.split(sep) for a one-character separator: the pieces
\* between the start, the separators and the end
SplitOn(s, sep) ==
  LET at == {i \in 1..Len(s) : s[i] = sep}
      \* place of the k-th separator; 0 and Len(s) + 1 bound the text
      Place(k) == IF k = 0 THEN 0
                  ELSE IF k > Cardinality(at) THEN Len(s) + 1
                  ELSE CHOOSE i \in at : Cardinality({j \in at : j <= i}) = k
  IN [k \in 1..(Cardinality(at) + 1) |-> SubSeq(s, Place(k - 1) + 1, Place(k) - 1)]

\* String.prototype.includes
RECURSIVE Includes(_, _)
Includes(s, sub) ==
  IF Len(s) < Len(sub) THEN FALSE
  ELSE StartsWith(s, sub) \/ Includes(Tail(s), sub)

Digits == {"0", "1", "2", "3", "4", "5", "6", "7", "8", "9"}

\* /^\d+$/.test(s)
AllDigits(s) == s # << >> /\ \A i \in 1..Len(s) : s[i] \in Digits

\* Array.prototype.join(' ')
RECURSIVE JoinSpace(_)
JoinSpace(parts) ==
  IF parts = << >> THEN << >>
  ELSE IF Len(parts) = 1 THEN parts[1]
       ELSE parts[1] \o << " " >> \o JoinSpace(Tail(parts))

\* the lines parseVTT keeps, trimmed
RECURSIVE KeptLines(_)
KeptLines(lines) ==
  IF lines = << >> THEN << >>
  ELSE LET trim == Trim(Head(lines))
           skip == \/ ~Truthy(trim)
                   \/ StartsWith(trim, << "W", "E", "B", "V", "T", "T" >>)
                   \/ StartsWith(trim, << "N", "O", "T", "E" >>)
                   \/ Includes(trim, << "-", "-", ">" >>)
                   \/ AllDigits(trim)
       IN (IF skip THEN << >> ELSE << trim >>) \o KeptLines(Tail(lines))

parseVTT(vtt) == JoinSpace(KeptLines(SplitOn(vtt, "\n")))

SentenceEnd == {".", "!", "?"}

\* cleanText.split(/(?<=[.!?])\s+/): a run of whitespace that follows a
\* sentence end separates two pieces; prev is the character before s
RECURSIVE SplitSentences(_, _, _)
SplitSentences(s, prev, cur) ==
  IF s = << >> THEN << cur >>
  ELSE IF IsSpace(Head(s)) /\ prev \in SentenceEnd
       THEN << cur >> \o SplitSentences(TrimStart(s), " ", << >>)
       ELSE SplitSentences(Tail(s), Head(s), Append(cur, Head(s)))

\* the callbacks forEach hands to setTimeout, in index order; the callback
\* of sentences[index] (index from 0) is due after index * 100 ms
RECURSIVE TimerBatch(_, _)
TimerBatch(sentences, key) ==
  IF sentences = << >> THEN << >>
  ELSE LET last == sentences[Len(sentences)]
       IN TimerBatch(SubSeq(sentences, 1, Len(sentences) - 1), key)
          \o (IF Truthy(Trim(last))
              THEN << [text |-> Trim(last), key |-> key, index |-> Len(sentences) - 1] >>
              ELSE << >>)

\* of the pending callbacks of one import, the one that runs first: they were
\* set in index order with growing delays, so it is the first of them
DueLast(pending) == Len(pending)

DueFirst(pending) == 1

\* the record of an import: its sentences and the callbacks that ran
Batch(sentences) == [sentences |-> sentences, fired |-> << >>]

\* ------------------------------------------------------------ inputs

NoKey == << >>
Keys == {NoKey, << "k" >>}
NoDevice == << >>
DeviceIds == {NoDevice, << "s" >>, << "s", "p", "k", "r", "-", "2" >>}

\* response.text of a translation response: undefined, blank or text
ResponseTexts == {None, Some(<< " " >>), Some(<< "h", "i", " " >>)}

ErrorMessages == {"fetch failed"}

MimeAudio == << "a", "u", "d", "i", "o", "/", "p" >>
MimeText == << "t", "e", "x", "t" >>


RECURSIVE SeqsUpTo(_, _)
SeqsUpTo(S, n) ==
  IF n = 0 THEN {<< >>}
  ELSE LET shorter == SeqsUpTo(S, n - 1)
       IN shorter \cup {Append(q, x) : q \in {r \in shorter : Len(r) = n - 1}, x \in S}

\* a part: whether it has inlineData, its mimeType, and the number of bytes
\* base64ToArrayBuffer makes of its data
Part(inlineData, mimeType, bytes) ==
  [inlineData |-> inlineData, mimeType |-> mimeType, bytes |-> bytes]

PartAudio == Part(TRUE, MimeAudio, 2)
PartText == Part(TRUE, MimeText, 2)
PartPlain == Part(FALSE, << >>, 0)

\* response.candidates?.[0]?.content?.parts: undefined or a list of parts
ResponseParts ==
  { None, Some(<< >>), Some(<< PartAudio >>), Some(<< PartText, PartPlain >>),
    Some(<< PartText, PartAudio, PartAudio >>) }

\* a recognition result entry: res.isFinal, res[0].transcript
ResultEntries ==
  { [isFinal |-> f, transcript |-> t] : f \in BOOLEAN, t \in {<< "a" >>, << " " >>} }

\* a recognition event: event.resultIndex (from 0), event.results
RecognitionEvents(n) ==
  { [resultIndex |-> i, results |-> r] :
      i \in 0..(n - 1), r \in {q \in SeqsUpTo(ResultEntries, n) : Len(q) >= 1} }

\* the transcript documents a download returns
VttDocs ==
  { << "W", "E", "B", "V", "T", "T", "\n", "\n", "1", "\n", "0", "-", "-", ">", "1", "\n" >>,
    << "N", "O", "T", "E", " ", "x", "\n", "1", "\n", "0", "-", "-", ">", "1", "\n",
       " ", "a", ".", " ", "\n", "2", "\n", "a", "\n" >>,
    << "b", "!", " ", "\n", "c", "?", "\t", "d", "\n", "\n", "e" >> }

RECURSIVE SumLen(_)
SumLen(batches) ==
  IF batches = << >> THEN 0 ELSE Len(Head(batches)) + SumLen(Tail(batches))

\* segments accepted so far plus those the pending timers will submit
Submitted == Len(trace) + SumLen(timers)

RemoveAt(q, i) == SubSeq(q, 1, i - 1) \o SubSeq(q, i + 1, Len(q))

pipeRest == << translationQueue, processingQueue, translations, drains, popped,
               trace, fed >>

\* ---------------------------------------------------------------- Init

Init ==
  /\ apiKey = NoKey
  /\ selectedOutputDeviceId = NoDevice
  /\ translationQueue = << >>
  /\ processingQueue = FALSE
  /\ status = Ready
  /\ translations = << >>
  /\ drains = {}
  /\ popped = << >>
  /\ trace = << >>
  /\ fed = << >>
  /\ audioStreamerRef = 0
  /\ streamers = << >>
  /\ inits = << >>
  /\ recognitionRef = None
  /\ recState = "idle"
  /\ isRecognizing = FALSE
  /\ srSupported \in BOOLEAN
  /\ isFetchingZoom = FALSE
  /\ zoomCall = None
  /\ timers = << >>
  /\ importLog = << >>
  /\ finalTranscript = << >>
  /\ interimTranscript = << >>
  /\ inputDevices = << >>
  /\ outputDevices = << >>
  /\ enumerations = << >>
  /\ canEnumerate = TRUE
  /\ refreshLog = << >>
  /\ document = << >>
  /\ parsed = None
  /\ clicks = [starts |-> 0, imports |-> 0, refreshes |-> 0]

\* ------------------------------------------------- configuration inputs

\* onChange of the API key field
SetApiKey(k) ==
  /\ k # apiKey
  /\ apiKey' = k
  /\ UNCHANGED << clicks, selectedOutputDeviceId, extraVars, pipeVars, audioVars, recVars, zoomVars >>

\* -------------------------------------------------- speech recognition

StartError == << "Error starting recognition: ", "InvalidStateError" >>

\* startRecording after `await initAudioStreamer()`; key is the apiKey of the
\* render whose startRecording was clicked, which initRecognition's handlers keep
StartAfterInit(key) ==
  LET ref == IF recognitionRef # None THEN recognitionRef
             ELSE IF srSupported THEN Some([key |-> key]) ELSE None
  IN /\ recognitionRef' = ref
     /\ IF ref = None
        THEN UNCHANGED << recState, status >>
        ELSE IF recState = "idle"
             THEN recState' = "starting" /\ UNCHANGED status
             ELSE status' = StartError /\ UNCHANGED recState
     /\ UNCHANGED << isRecognizing, srSupported, pipeRest >>

\* rec.onstart
RecOnStart ==
  /\ recState = "starting"
  /\ recState' = "running"
  /\ isRecognizing' = TRUE
  /\ status' = << "Listening..." >>
  /\ UNCHANGED << clicks, apiKey, selectedOutputDeviceId, extraVars, pipeRest, audioVars,
                  recognitionRef, srSupported, zoomVars >>

\* an onend that calls start() again
RecOnEndRestarts ==
  /\ recState \in {"starting", "running", "stopping"}
  /\ recState' = "starting"
  /\ isRecognizing' = FALSE
  /\ status' = << "Stopped. Click Start to resume." >>
  /\ UNCHANGED << clicks, apiKey, selectedOutputDeviceId, extraVars, pipeRest, audioVars,
                  recognitionRef, srSupported, zoomVars >>

\* rec.onend: the session ended (after stop(), after an error, or by itself)
RecOnEnd ==
  /\ recState \in {"starting", "running", "stopping"}
  /\ recState' = "idle"
  /\ isRecognizing' = FALSE
  /\ status' = << "Stopped. Click Start to resume." >>
  /\ UNCHANGED << clicks, apiKey, selectedOutputDeviceId, extraVars, pipeRest, audioVars,
                  recognitionRef, srSupported, zoomVars >>

\* rec.onerror; the session then ends
RecOnError(errCode) ==
  /\ recState \in {"starting", "running"}
  /\ recState' = "stopping"
  /\ status' = << "Speech error: ", errCode >>
  /\ UNCHANGED << clicks, apiKey, selectedOutputDeviceId, extraVars, pipeRest, audioVars,
                  recognitionRef, isRecognizing, srSupported, zoomVars >>

\* the loop without the test of isFinal
RECURSIVE FinalChunkAnyEntry(_, _)
FinalChunkAnyEntry(results, i) ==
  IF i > Len(results) THEN << >>
  ELSE results[i].transcript \o << " " >> \o FinalChunkAnyEntry(results, i + 1)

\* the for loop of rec.onresult from index i (from 1 here) on
RECURSIVE FinalChunk(_, _)
FinalChunk(results, i) ==
  IF i > Len(results) THEN << >>
  ELSE (IF results[i].isFinal THEN results[i].transcript \o << " " >> ELSE << >>)
       \o FinalChunk(results, i + 1)

\* the same loop: the interim text
RECURSIVE Interim(_, _)
Interim(results, i) ==
  IF i > Len(results) THEN << >>
  ELSE (IF results[i].isFinal THEN << >> ELSE results[i].transcript)
       \o Interim(results, i + 1)

\* rec.onresult
RecOnResult(event, maxSeg) ==
  /\ recState \in {"running", "stopping"}
  /\ LET finalChunk == FinalChunk(event.results, event.resultIndex + 1)
         interim == Interim(event.results, event.resultIndex + 1)
     IN IF Len(Trim(finalChunk)) > 0
        THEN /\ Submitted < maxSeg
             /\ finalTranscript' = finalTranscript \o Trim(finalChunk) \o << "\n" >>
             /\ SetPipe(EnqueueTranslation(Pipe, Trim(finalChunk), recognitionRef[1].key))
             /\ interimTranscript' = << >>
        ELSE /\ interimTranscript' = interim
             /\ UNCHANGED << finalTranscript, pipeVars >>
  /\ UNCHANGED << clicks, apiKey, selectedOutputDeviceId, deviceVars, parseVars, audioVars,
                  recVars, zoomVars >>

\* click on Stop (enabled while isRecognizing)
StopRecording ==
  /\ isRecognizing
  /\ recState' = IF recognitionRef # None /\ recState \in {"starting", "running"}
                 THEN "stopping" ELSE recState
  /\ UNCHANGED << clicks, apiKey, selectedOutputDeviceId, extraVars, pipeVars, audioVars,
                  recognitionRef, isRecognizing, srSupported, zoomVars >>

\* ---------------------------------------------------- fetchZoomTranscript

ZoomError(message) == << "Zoom Error: ", message >>

\* fetchZoomTranscript after `await initAudioStreamer()`: the forEach over the
\* sentences, the status, and the finally block; or, when the call threw,
\* the catch and the finally block
ZoomAfterInit(ok) ==
  /\ IF ok
     THEN /\ timers' = Append(timers, TimerBatch(zoomCall[1].sentences, zoomCall[1].key))
          /\ importLog' = Append(importLog, Batch(zoomCall[1].sentences))
          /\ status' = << "Zoom: Transcript loaded and queuing for translation." >>
     ELSE /\ UNCHANGED << timers, importLog >>
          /\ status' = ZoomError("audio")
  /\ isFetchingZoom' = FALSE
  /\ zoomCall' = None
  /\ UNCHANGED pipeRest

\* --------------------------------------------------- initAudioStreamer

\* the frame of an initAudioStreamer call suspended at `await audioContext(..)`;
\* key and dev are the apiKey and selectedOutputDeviceId of the caller's render
CtxFrame(caller, key, dev) ==
  [caller |-> caller, key |-> key, dev |-> dev, pc |-> "ctx", sid |-> 0]

\* the caller of initAudioStreamer after the call returned (ok) or threw
CallerGoesOn(fr, ok) ==
  IF fr.caller = "start"
  THEN /\ IF ok THEN StartAfterInit(fr.key) ELSE UNCHANGED << recVars, pipeVars >>
       /\ UNCHANGED zoomVars
  ELSE /\ ZoomAfterInit(ok)
       /\ UNCHANGED recVars

\* audioContext(..) resolved: the streamer is constructed and stored, and
\* resume() is called on it
CtxResolves(i) ==
  /\ inits[i].pc = "ctx"
  /\ streamers' = Append(streamers, [resumed |-> FALSE, sink |-> NoDevice])
  /\ audioStreamerRef' = Len(streamers) + 1
  /\ inits' = [inits EXCEPT ![i] = [@ EXCEPT !.pc = "resume", !.sid = Len(streamers) + 1]]
  /\ UNCHANGED << clicks, apiKey, selectedOutputDeviceId, extraVars, pipeVars, recVars, zoomVars >>

\* audioContext(..) or resume() or setOutputDevice(..) rejected: initAudioStreamer throws
InitRejects(i) ==
  /\ inits' = RemoveAt(inits, i)
  /\ CallerGoesOn(inits[i], FALSE)
  /\ UNCHANGED << clicks, apiKey, selectedOutputDeviceId, extraVars, audioStreamerRef, streamers >>

\* AudioStreamer.setOutputDevice(id) on streamer sid: later buffers go to id
SetOutputDevice(all, sid, id) == [all EXCEPT ![sid].sink = id]

\* resume() resolved; with a device selected in the caller's render,
\* setOutputDevice is called on the streamer the ref holds now
ResumeResolves(i) ==
  /\ inits[i].pc = "resume"
  /\ LET resumed == [streamers EXCEPT ![inits[i].sid].resumed = TRUE]
     IN IF Truthy(inits[i].dev)
        THEN /\ streamers' = SetOutputDevice(resumed, audioStreamerRef, inits[i].dev)
             /\ inits' = [inits EXCEPT ![i].pc = "sink"]
             /\ UNCHANGED << pipeVars, recVars, zoomVars >>
        ELSE /\ streamers' = resumed
             /\ inits' = RemoveAt(inits, i)
             /\ CallerGoesOn(inits[i], TRUE)
  /\ UNCHANGED << clicks, apiKey, selectedOutputDeviceId, extraVars, audioStreamerRef >>

\* setOutputDevice(..) resolved: initAudioStreamer returns
SinkResolves(i) ==
  /\ inits[i].pc = "sink"
  /\ inits' = RemoveAt(inits, i)
  /\ CallerGoesOn(inits[i], TRUE)
  /\ UNCHANGED << clicks, apiKey, selectedOutputDeviceId, extraVars, audioStreamerRef, streamers >>

\* click on Start (enabled while not isRecognizing)
StartRecording(maxStarts) ==
  /\ ~isRecognizing
  /\ clicks.starts < maxStarts
  /\ clicks' = [clicks EXCEPT !.starts = @ + 1]
  /\ IF audioStreamerRef = 0
     THEN /\ inits' = Append(inits, CtxFrame("start", apiKey, selectedOutputDeviceId))
          /\ UNCHANGED << recVars, pipeVars >>
     ELSE /\ StartAfterInit(apiKey)
          /\ UNCHANGED inits
  /\ UNCHANGED << apiKey, selectedOutputDeviceId, extraVars, audioStreamerRef, streamers, zoomVars >>

\* click on the Zoom button (enabled while not isFetchingZoom)
FetchZoomTranscript(haveCredentials, maxImports) ==
  /\ ~isFetchingZoom
  /\ clicks.imports < maxImports
  /\ clicks' = [clicks EXCEPT !.imports = @ + 1]
  /\ IF haveCredentials
     THEN /\ isFetchingZoom' = TRUE
          /\ status' = << "Zoom: Fetching recordings..." >>
          /\ zoomCall' = Some([pc |-> "list", key |-> apiKey,
                               dev |-> selectedOutputDeviceId, sentences |-> << >>])
     ELSE /\ status' = << "Zoom: Missing Token or Meeting ID" >>
          /\ UNCHANGED << isFetchingZoom, zoomCall >>
  /\ UNCHANGED << apiKey, selectedOutputDeviceId, extraVars, pipeRest, audioVars, recVars,
                  timers, importLog >>

\* the catch and finally blocks of fetchZoomTranscript
ZoomThrows(message) ==
  /\ status' = ZoomError(message)
  /\ isFetchingZoom' = FALSE
  /\ zoomCall' = None
  /\ UNCHANGED << clicks, apiKey, selectedOutputDeviceId, extraVars, pipeRest, audioVars,
                  recVars, timers, importLog >>

\* the recordings list arrived (the fetch and the reading of its body)
ZoomListResolves(outcome) ==
  /\ zoomCall # None /\ zoomCall[1].pc = "list"
  /\ IF outcome = "transcript"
     THEN /\ status' = << "Zoom: Downloading transcript..." >>
          /\ zoomCall' = Some([zoomCall[1] EXCEPT !.pc = "download"])
          /\ UNCHANGED << clicks, apiKey, selectedOutputDeviceId, extraVars, pipeRest,
                          audioVars, recVars, isFetchingZoom, timers, importLog >>
     ELSE ZoomThrows(outcome)

\* the download failed
ZoomDownloadFails ==
  /\ zoomCall # None /\ zoomCall[1].pc = "download"
  /\ ZoomThrows("Failed to download transcript file")

\* the transcript arrived: parse, split, make sure audio is ready, set the timers
ZoomDownloadResolves(vttText, maxSeg) ==
  /\ zoomCall # None /\ zoomCall[1].pc = "download"
  /\ LET cleanText == parseVTT(vttText)
         sentences == SplitSentences(cleanText, " ", << >>)
         call == [zoomCall[1] EXCEPT !.pc = "init", !.sentences = sentences]
     IN IF ~Truthy(cleanText)
        THEN /\ status' = << "Zoom: Transcript was empty." >>
             /\ isFetchingZoom' = FALSE
             /\ zoomCall' = None
             /\ UNCHANGED << pipeRest, inits, timers, importLog >>
        ELSE /\ Submitted + Len(TimerBatch(sentences, call.key)) <= maxSeg
             /\ IF audioStreamerRef = 0
                THEN /\ inits' = Append(inits, CtxFrame("zoom", call.key, call.dev))
                     /\ zoomCall' = Some(call)
                     /\ status' = << "Zoom: Processing transcript..." >>
                     /\ UNCHANGED << pipeRest, isFetchingZoom, timers, importLog >>
                ELSE /\ timers' = Append(timers, TimerBatch(sentences, call.key))
                     /\ importLog' = Append(importLog, Batch(sentences))
                     /\ status' = << "Zoom: Transcript loaded and queuing for translation." >>
                     /\ isFetchingZoom' = FALSE
                     /\ zoomCall' = None
                     /\ UNCHANGED << pipeRest, inits >>
  /\ UNCHANGED << clicks, apiKey, selectedOutputDeviceId, extraVars, audioStreamerRef, streamers, recVars >>

\* a setTimeout callback of an import runs: enqueueTranslation(sentence.trim())
TimerFires(b) ==
  /\ timers[b] # << >>
  /\ LET t == timers[b][DueFirst(timers[b])]
     IN /\ SetPipe(EnqueueTranslation(Pipe, t.text, t.key))
        /\ importLog' = [importLog EXCEPT ![b].fired =
                         Append(@, [index |-> t.index, seq |-> Len(trace) + 1])]
  /\ timers' = [timers EXCEPT ![b] = RemoveAt(@, DueFirst(@))]
  /\ UNCHANGED << clicks, apiKey, selectedOutputDeviceId, extraVars, audioVars, recVars,
                  isFetchingZoom, zoomCall >>

\* ------------------------------------------------- the drain loop's awaits

othersOfPipe == << clicks, apiKey, selectedOutputDeviceId, extraVars, audioVars,
                   recVars, zoomVars >>

\* the translation request returned
TranslateResolves(fr, resp) ==
  /\ fr.pc = "translate"
  /\ SetPipe(AfterTranslate(Resume(fr), fr, TranslateResult(resp)))
  /\ UNCHANGED othersOfPipe

\* the translation request failed: translateWithGemini rethrows
TranslateRejects(fr, message) ==
  /\ fr.pc = "translate"
  /\ SetPipe(AfterTranslateError(Note(Resume(fr), fr.chunk.seq, EvTranslateError),
                                 fr, message))
  /\ UNCHANGED othersOfPipe

\* the speech request returned
SpeakResolves(fr, parts) ==
  /\ fr.pc = "speak"
  /\ SetPipe(AfterSpeak(Resume(fr), fr, parts))
  /\ UNCHANGED othersOfPipe

\* the speech request failed
SpeakRejects(fr) ==
  /\ fr.pc = "speak"
  /\ SetPipe(AfterSpeakError(Resume(fr), fr))
  /\ UNCHANGED othersOfPipe

\* ------------------------------------------------------------------ Next

\* a pending network call of the drain loop returns or fails
NetworkReturns ==
  \/ \E fr \in drains, resp \in ResponseTexts : TranslateResolves(fr, resp)
  \/ \E fr \in drains, m \in ErrorMessages : TranslateRejects(fr, m)
  \/ \E fr \in drains, parts \in ResponseParts : SpeakResolves(fr, parts)
  \/ \E fr \in drains : SpeakRejects(fr)

\* an await of initAudioStreamer settles
AudioReturns ==
  \/ \E i \in 1..Len(inits) : CtxResolves(i)
  \/ \E i \in 1..Len(inits) : InitRejects(i)
  \/ \E i \in 1..Len(inits) : ResumeResolves(i)

\* the Start and Stop buttons and the recognition service, for at most maxSeg
\* segments, maxStarts clicks on Start and events of at most maxResults entries
RecognitionHandlers(maxSeg, maxStarts, maxResults) ==
  \/ StartRecording(maxStarts)
  \/ StopRecording
  \/ RecOnStart
  \/ RecOnEnd
  \/ \E code \in {"no-speech"} : RecOnError(code)
  \/ \E event \in RecognitionEvents(maxResults) : RecOnResult(event, maxSeg)

\* the Zoom button, the fetches and the timers, for at most maxSeg segments
\* and maxImports clicks
ImportHandlers(maxSeg, maxImports) ==
  \/ \E c \in BOOLEAN : FetchZoomTranscript(c, maxImports)
  \/ \E o \in {"transcript", "Zoom API Error", "No transcript file found"} :
       ZoomListResolves(o)
  \/ ZoomDownloadFails
  \/ \E vtt \in VttDocs : ZoomDownloadResolves(vtt, maxSeg)
  \/ \E b \in 1..Len(timers) : TimerFires(b)

\* every handler of the pipeline and of its two sources
Handlers(maxSeg, maxStarts, maxImports, maxResults) ==
  \/ \E k \in Keys : SetApiKey(k)
  \/ RecognitionHandlers(maxSeg, maxStarts, maxResults)
  \/ ImportHandlers(maxSeg, maxImports)
  \/ AudioReturns
  \/ NetworkReturns

\* the application: the user, the recognition service, the network
Next == Handlers(MaxSeg, MaxStarts, MaxImports, 1)

Spec == Init /\ [][Next]_vars

\* the application when every network call of the drain loop eventually
\* returns or fails
FairSpec == Spec /\ WF_vars(NetworkReturns)

\* ------------------------------------------------ live recognition alone
\* The recognition source and the pipeline, with events of several entries.

NextLive ==
  \/ \E k \in Keys : SetApiKey(k)
  \/ RecognitionHandlers(LiveMaxSeg, LiveMaxStarts, LiveMaxResults)
  \/ AudioReturns
  \/ NetworkReturns

SpecLive == Init /\ [][NextLive]_vars

\* ------------------------------------------------ the import alone
\* The imported transcript and the pipeline, with longer documents and
\* imports that overlap.

NextImport ==
  \/ \E k \in Keys : SetApiKey(k)
  \/ ImportHandlers(ImportMaxSeg, ImportMaxImports)
  \/ AudioReturns
  \/ NetworkReturns

SpecImport == Init /\ [][NextImport]_vars

\* ------------------------------------------------------ parseVTT alone
\* parseVTT applied to cue-formatted documents.  A document is a sequence of
\* lines, each with the role it has in the document.

Line(role, text) == [role |-> role, text |-> text]

HeaderLine == Line("header", << "W", "E", "B", "V", "T", "T" >>)

\* the lines a document is made of after its header
CueLines ==
  { Line("note", << "N", "O", "T", "E", " ", "x" >>),
    Line("index", << "1" >>),
    Line("timing", << "0", " ", "-", "-", ">", " ", "1" >>),
    Line("blank", << >>),
    Line("speech", << " ", "H", "i", ".", " " >>),
    Line("speech", << "a" >>),
    Line("speech", << "4", "2" >>) }

\* a cue is an optional index line, a timing line and at least one line of
\* speech; notes and blank lines stand between cues
CueFormatted(lines) ==
  \A i \in 1..Len(lines) :
    /\ lines[i].role = "index" => i < Len(lines) /\ lines[i + 1].role = "timing"
    /\ lines[i].role = "timing" => i < Len(lines) /\ lines[i + 1].role = "speech"
    /\ lines[i].role = "speech" => i > 1 /\ lines[i - 1].role \in {"timing", "speech"}

\* the example of the specification
ExampleDocument ==
  << Line("header",
       << "W", "E", "B", "V", "T", "T" >>),
     Line("note",
       << "N", "O", "T", "E", " ", "g", "e", "n", "e", "r", "a", "t", "e", "d" >>),
     Line("index",
       << "1" >>),
     Line("timing",
       << "0", "0", ":", "0", "0", ":", "0", "0", ".", "0", "0", "0", " ", "-",
            "-", ">", " ", "0", "0", ":", "0", "0", ":", "0", "2", ".", "0",
            "0", "0" >>),
     Line("speech",
       << "H", "e", "l", "l", "o", " ", "t", "h", "e", "r", "e", "." >>),
     Line("index",
       << "2" >>),
     Line("timing",
       << "0", "0", ":", "0", "0", ":", "0", "2", ".", "0", "0", "0", " ", "-",
            "-", ">", " ", "0", "0", ":", "0", "0", ":", "0", "4", ".", "0",
            "0", "0" >>),
     Line("speech",
       << "H", "o", "w", " ", "a", "r", "e", " ", "y", "o", "u", "?" >>) >>

ExampleText ==
  << "H", "e", "l", "l", "o", " ", "t", "h", "e", "r", "e", ".", " ", "H",
       "o", "w", " ", "a", "r", "e", " ", "y", "o", "u", "?" >>

CueDocuments ==
  {ExampleDocument} \cup
  { << HeaderLine >> \o lines : lines \in {q \in SeqsUpTo(CueLines, ParseMaxLines) : CueFormatted(q)} }

\* the text of a document: its lines, each ended by a line feed
RECURSIVE TextOfLines(_)
TextOfLines(lines) ==
  IF lines = << >> THEN << >>
  ELSE Head(lines).text \o << "\n" >> \o TextOfLines(Tail(lines))

InitParse ==
  /\ apiKey = NoKey
  /\ selectedOutputDeviceId = NoDevice
  /\ translationQueue = << >>
  /\ processingQueue = FALSE
  /\ status = Ready
  /\ translations = << >>
  /\ drains = {}
  /\ popped = << >>
  /\ trace = << >>
  /\ fed = << >>
  /\ audioStreamerRef = 0
  /\ streamers = << >>
  /\ inits = << >>
  /\ recognitionRef = None
  /\ recState = "idle"
  /\ isRecognizing = FALSE
  /\ srSupported = TRUE
  /\ isFetchingZoom = FALSE
  /\ zoomCall = None
  /\ timers = << >>
  /\ importLog = << >>
  /\ finalTranscript = << >>
  /\ interimTranscript = << >>
  /\ inputDevices = << >>
  /\ outputDevices = << >>
  /\ enumerations = << >>
  /\ canEnumerate = TRUE
  /\ refreshLog = << >>
  /\ document \in CueDocuments
  /\ parsed = None
  /\ clicks = [starts |-> 0, imports |-> 0, refreshes |-> 0]

\* parseVTT(vttText) called on the text of the document
ParseDocument ==
  /\ parsed = None
  /\ parsed' = Some(parseVTT(TextOfLines(document)))
  /\ UNCHANGED << clicks, apiKey, selectedOutputDeviceId, viewVars, deviceVars, document,
                  pipeVars, audioVars, recVars, zoomVars >>

NextParse == ParseDocument

SpecParse == InitParse /\ [][NextParse]_vars

\* ------------------------------------------------------ audio devices

\* a MediaDeviceInfo
Device(kind, deviceId, label) == [kind |-> kind, deviceId |-> deviceId, label |-> label]

\* String.prototype.slice(0, n)
SliceTo(s, n) == SubSeq(s, 1, IF Len(s) < n THEN Len(s) ELSE n)

\* d => ({ deviceId: d.deviceId, label: d.label || `<word> ${d.deviceId.slice(0,5)}` })
Labelled(d, word) ==
  [deviceId |-> d.deviceId,
   label |-> IF Truthy(d.label) THEN d.label ELSE << word, " " >> \o SliceTo(d.deviceId, 5)]

IsAudioInput(d) == d.kind = "audioinput"

IsAudioOutput(d) == d.kind = "audiooutput"

\* devices.filter(d => d.kind === 'audioinput').map(..)
InputsOf(devices) ==
  LET kept == SelectSeq(devices, IsAudioInput)
  IN [i \in 1..Len(kept) |-> Labelled(kept[i], "Microphone")]

\* devices.filter(d => d.kind === 'audiooutput').map(..)
OutputsOf(devices) ==
  LET kept == SelectSeq(devices, IsAudioOutput)
  IN [i \in 1..Len(kept) |-> Labelled(kept[i], "Speaker")]

\* what navigator.mediaDevices.enumerateDevices() resolves with
DeviceLists ==
  { << >>,
    << Device("audiooutput", << "s" >>, << >>) >>,
    << Device("audioinput", << "m" >>, << "M" >>),
       Device("audiooutput", << "s" >>, << "S" >>),
       Device("audiooutput", << "s", "p", "k", "r", "-", "2" >>, << >>),
       Device("videoinput", << "c" >>, << >>) >> }

Unsupported == << "Audio device enumeration not supported" >>
EnumerationError == << "Error accessing audio devices" >>

\* how an enumerateAudioDevices call ended
Refreshed(id, outcome, devices) == [id |-> id, outcome |-> outcome, devices |-> devices]

\* enumerateAudioDevices called (on mount, on devicechange), to its await
EnumerateAudioDevices(maxRefreshes) ==
  /\ clicks.refreshes < maxRefreshes
  /\ clicks' = [clicks EXCEPT !.refreshes = @ + 1]
  /\ IF canEnumerate
     THEN /\ enumerations' = Append(enumerations, clicks.refreshes + 1)
          /\ UNCHANGED << status, refreshLog >>
     ELSE /\ status' = Unsupported
          /\ refreshLog' = Append(refreshLog,
                                  Refreshed(clicks.refreshes + 1, "unsupported", << >>))
          /\ UNCHANGED enumerations
  /\ UNCHANGED << apiKey, selectedOutputDeviceId, viewVars, parseVars, inputDevices,
                  outputDevices, canEnumerate, pipeRest, audioVars, recVars, zoomVars >>

\* the catch block of enumerateAudioDevices: the lists are not set
EnumerateRejectsAndClears(i) ==
  /\ i \in 1..Len(enumerations)
  /\ status' = EnumerationError
  /\ inputDevices' = << >>
  /\ outputDevices' = << >>
  /\ enumerations' = RemoveAt(enumerations, i)
  /\ refreshLog' = Append(refreshLog, Refreshed(enumerations[i], "failed", << >>))
  /\ UNCHANGED << clicks, apiKey, selectedOutputDeviceId, viewVars, parseVars,
                  canEnumerate, pipeRest, audioVars, recVars, zoomVars >>

\* enumerateDevices() rejected: the catch block of enumerateAudioDevices
EnumerateRejects(i) ==
  /\ i \in 1..Len(enumerations)
  /\ status' = EnumerationError
  /\ enumerations' = RemoveAt(enumerations, i)
  /\ refreshLog' = Append(refreshLog, Refreshed(enumerations[i], "failed", << >>))
  /\ UNCHANGED << clicks, apiKey, selectedOutputDeviceId, viewVars, parseVars, inputDevices,
                  outputDevices, canEnumerate, pipeRest, audioVars, recVars, zoomVars >>

\* enumerateDevices() resolved: both lists are replaced
EnumerateResolves(i, devices) ==
  /\ i \in 1..Len(enumerations)
  /\ inputDevices' = InputsOf(devices)
  /\ outputDevices' = OutputsOf(devices)
  /\ enumerations' = RemoveAt(enumerations, i)
  /\ refreshLog' = Append(refreshLog, Refreshed(enumerations[i], "ok", devices))
  /\ UNCHANGED << clicks, apiKey, selectedOutputDeviceId, viewVars, parseVars,
                  canEnumerate, pipeVars, audioVars, recVars, zoomVars >>

\* the entries of the output selector: "Default / Select..." and the devices
OutputOptions == {NoDevice} \cup {outputDevices[i].deviceId : i \in 1..Len(outputDevices)}

\* the effect on [selectedOutputDeviceId] applying every entry, '' included
OutputDeviceEffectAnyEntry(id) ==
  IF audioStreamerRef # 0
  THEN SetOutputDevice(streamers, audioStreamerRef, id)
  ELSE streamers

\* the effect on [selectedOutputDeviceId], run after the render with id
OutputDeviceEffect(id) ==
  IF audioStreamerRef # 0 /\ Truthy(id)
  THEN SetOutputDevice(streamers, audioStreamerRef, id)
  ELSE streamers

\* onChange of the output selector (enabled while outputDevices is not
\* empty), the render and the effect on [selectedOutputDeviceId]
SelectOutputDevice(id) ==
  /\ outputDevices # << >>
  /\ id \in OutputOptions
  /\ id # selectedOutputDeviceId
  /\ selectedOutputDeviceId' = id
  /\ streamers' = OutputDeviceEffect(id)
  /\ UNCHANGED << clicks, apiKey, extraVars, pipeVars, audioStreamerRef, inits, recVars,
                  zoomVars >>

\* the component after mount: the first effect has called enumerateAudioDevices
InitDevices ==
  /\ apiKey = NoKey
  /\ selectedOutputDeviceId = NoDevice
  /\ translationQueue = << >>
  /\ processingQueue = FALSE
  /\ translations = << >>
  /\ drains = {}
  /\ popped = << >>
  /\ trace = << >>
  /\ fed = << >>
  /\ audioStreamerRef = 0
  /\ streamers = << >>
  /\ inits = << >>
  /\ recognitionRef = None
  /\ recState = "idle"
  /\ isRecognizing = FALSE
  /\ srSupported = TRUE
  /\ isFetchingZoom = FALSE
  /\ zoomCall = None
  /\ timers = << >>
  /\ importLog = << >>
  /\ finalTranscript = << >>
  /\ interimTranscript = << >>
  /\ inputDevices = << >>
  /\ outputDevices = << >>
  /\ document = << >>
  /\ parsed = None
  /\ clicks = [starts |-> 0, imports |-> 0, refreshes |-> 1]
  /\ canEnumerate \in BOOLEAN
  /\ IF canEnumerate
     THEN status = Ready /\ enumerations = << 1 >> /\ refreshLog = << >>
     ELSE /\ status = Unsupported
          /\ enumerations = << >>
          /\ refreshLog = << Refreshed(1, "unsupported", << >>) >>

\* the device lists, the output selector and the creation of the streamer
NextDevices ==
  \/ EnumerateAudioDevices(DevMaxRefreshes)
  \/ \E i \in 1..Len(enumerations), devices \in DeviceLists : EnumerateResolves(i, devices)
  \/ \E i \in 1..Len(enumerations) : EnumerateRejects(i)
  \/ \E id \in DeviceIds : SelectOutputDevice(id)
  \/ StartRecording(DevMaxStarts)
  \/ AudioReturns
  \/ \E i \in 1..Len(inits) : SinkResolves(i)

SpecDevices == InitDevices /\ [][NextDevices]_vars

\* ------------------------------------------------ the queue on its own
\* enqueueTranslation called by any caller (any text, the key of any render)
\* at any time, with the audio streamer in each state the application can
\* leave it in: none, created and resumed, created and not resumed.

QueueTexts == {<< >>, << " " >>, << "a" >>, << "b", "." >>}

AudioStates ==
  { [ref |-> 0, streamers |-> << >>],
    [ref |-> 1, streamers |-> << [resumed |-> TRUE, sink |-> NoDevice] >>],
    [ref |-> 1, streamers |-> << [resumed |-> FALSE, sink |-> NoDevice] >>] }

InitQueue ==
  /\ apiKey = NoKey
  /\ selectedOutputDeviceId = NoDevice
  /\ translationQueue = << >>
  /\ processingQueue = FALSE
  /\ status = Ready
  /\ translations = << >>
  /\ drains = {}
  /\ popped = << >>
  /\ trace = << >>
  /\ fed = << >>
  /\ \E a \in AudioStates : audioStreamerRef = a.ref /\ streamers = a.streamers
  /\ inits = << >>
  /\ recognitionRef = None
  /\ recState = "idle"
  /\ isRecognizing = FALSE
  /\ srSupported = TRUE
  /\ isFetchingZoom = FALSE
  /\ zoomCall = None
  /\ timers = << >>
  /\ importLog = << >>
  /\ finalTranscript = << >>
  /\ interimTranscript = << >>
  /\ inputDevices = << >>
  /\ outputDevices = << >>
  /\ enumerations = << >>
  /\ canEnumerate = TRUE
  /\ refreshLog = << >>
  /\ document = << >>
  /\ parsed = None
  /\ clicks = [starts |-> 0, imports |-> 0, refreshes |-> 0]

\* a call of enqueueTranslation
EnqueueCall(text, key, maxSeg) ==
  /\ Len(trace) < maxSeg
  /\ SetPipe(EnqueueTranslation(Pipe, text, key))
  /\ UNCHANGED othersOfPipe

NextQueue ==
  \/ \E text \in QueueTexts, key \in Keys : EnqueueCall(text, key, QueueMaxSeg)
  \/ \E fr \in drains, resp \in ResponseTexts : TranslateResolves(fr, resp)
  \/ \E fr \in drains, m \in ErrorMessages : TranslateRejects(fr, m)
  \/ \E fr \in drains, parts \in ResponseParts : SpeakResolves(fr, parts)
  \/ \E fr \in drains : SpeakRejects(fr)

SpecQueue == InitQueue /\ [][NextQueue]_vars

\* ------------------------------------------- recognition sessions
\* Start clicked more than once, so that a session that ended can be followed
\* by another, with events of one entry.

NextSession ==
  \/ \E k \in {<< "k" >>} : SetApiKey(k)
  \/ RecognitionHandlers(SessionMaxSeg, SessionMaxStarts, 1)
  \/ AudioReturns
  \/ NetworkReturns

SpecSession == Init /\ [][NextSession]_vars

\* ------------------------------------------------ speech on its own
\* One segment after another translated and spoken, with responses of
\* several parts: audio payloads of 2, 4 and (malformed) 3 bytes, inline
\* data of another media type, and parts without inline data.

SpeechPartKinds ==
  { Part(TRUE, MimeAudio, 2), Part(TRUE, MimeAudio, 4), Part(TRUE, MimeAudio, 3),
    Part(TRUE, MimeText, 2), Part(FALSE, << >>, 0) }

SpeechResponses ==
  {None} \cup {Some(parts) : parts \in SeqsUpTo(SpeechPartKinds, SpeechMaxParts)}

NextSpeech ==
  \/ EnqueueCall(<< "a" >>, << "k" >>, SpeechMaxSeg)
  \/ \E fr \in drains : TranslateResolves(fr, Some(<< "h", "i", " " >>))
  \/ \E fr \in drains, parts \in SpeechResponses : SpeakResolves(fr, parts)
  \/ \E fr \in drains : SpeakRejects(fr)

\* segments arrive only after initAudioStreamer has returned, so the
\* streamer is there
InitSpeech == InitQueue /\ audioStreamerRef # 0

SpecSpeech == InitSpeech /\ [][NextSpeech]_vars

\* ------------------------------------------------ the audio streamer
\* AudioStreamer keeps the time at which the next buffer starts.  The state
\* of a streamer is what its addPCM16 calls so far made of it.

PCM16SampleBytes == 2

NewSchedule == [cursor |-> 0, buffers |-> << >>]

\* addPCM16 that starts every buffer at once
AddPCM16AtOnce(schedule, bytes) ==
  IF bytes % PCM16SampleBytes # 0 THEN schedule
  ELSE [cursor |-> schedule.cursor + bytes \div PCM16SampleBytes,
        buffers |-> Append(schedule.buffers,
                           [startTime |-> 0,
                            duration |-> bytes \div PCM16SampleBytes])]

\* addPCM16(chunk) on a streamer: a chunk that is not a whole number of
\* samples is skipped; another is scheduled to start at the cursor, which
\* moves on by the chunk's duration (counted in samples)
AddPCM16(schedule, bytes) ==
  IF bytes % PCM16SampleBytes # 0 THEN schedule
  ELSE [cursor |-> schedule.cursor + bytes \div PCM16SampleBytes,
        buffers |-> Append(schedule.buffers,
                           [startTime |-> schedule.cursor,
                            duration |-> bytes \div PCM16SampleBytes])]

\* the streamer sid after the first n addPCM16 calls of the application
RECURSIVE ScheduleAfter(_, _)
ScheduleAfter(sid, n) ==
  IF n = 0 THEN NewSchedule
  ELSE IF fed[n].sid = sid THEN AddPCM16(ScheduleAfter(sid, n - 1), fed[n].bytes)
       ELSE ScheduleAfter(sid, n - 1)

Schedule(sid) == ScheduleAfter(sid, Len(fed))

\* ---------------------------------------------------------------- claims

SeqRange(q) == {q[i] : i \in 1..Len(q)}

Occurrences(q, x) == Cardinality({i \in 1..Len(q) : q[i] = x})

\* event ev is in the trace tr of a segment
HasEvent(tr, ev) == \E i \in 1..Len(tr) : tr[i] = ev

Increasing(q) == \A i, j \in 1..Len(q) : i < j => q[i] < q[j]

\* the text segment k was enqueued with
TextOf(k) == Tail(trace[k][1])

\* C1: at most one processQueue call is suspended in a stage invocation
\* (translateWithGemini or speakWithGemini) at any time, whatever calls of
\* enqueueTranslation arrive and whenever they arrive.
C1_SingleFlight == Cardinality(drains) <= 1

\* a segment was enqueued while the drain loop was suspended at a network
\* await, and waits in the buffer
C1_EnqueuedDuringDrain ==
  /\ Cardinality(drains) = 1
  /\ Len(translationQueue) >= 1
  /\ \A fr \in drains : fr.chunk.seq < translationQueue[1].seq

\* C2: the translations list holds the segments' results in enqueue order,
\* each with the text its segment was enqueued with, and the audio payloads
\* reach addPCM16 in enqueue order of their segments (and in response order
\* within one segment).
C2_OrderPreserved ==
  /\ \A i, j \in 1..Len(translations) :
       i < j => translations[i].seq < translations[j].seq
  /\ \A i \in 1..Len(translations) :
       translations[i].source = TextOf(translations[i].seq)
  /\ \A i, j \in 1..Len(fed) :
       i < j => \/ fed[i].seq < fed[j].seq
                \/ fed[i].seq = fed[j].seq /\ fed[i].part < fed[j].part

\* three segments were translated and the payloads of two of them were fed
C2_SeveralProduced ==
  /\ Len(translations) >= 3
  /\ \E i, j \in 1..Len(fed) : fed[i].seq # fed[j].seq

\* the translation request of segment k failed
TranslateFailed(k) == HasEvent(trace[k], EvTranslateError)

\* C3: when the translation of segment k fails, the error is caught within
\* that segment (the failure status is the last thing done for it), every
\* later segment is still in the buffer or has been popped, segments are
\* popped in enqueue order, and the loop only stops with the buffer empty and
\* the draining flag cleared.
C3_FailureIsolation ==
  \A k \in 1..Len(trace) :
    TranslateFailed(k) =>
      /\ \E m \in ErrorMessages : trace[k][Len(trace[k])] = ProcessError(m)
      /\ k \in SeqRange(popped)
      /\ \A fr \in drains : fr.chunk.seq # k
      /\ \A j \in (k + 1)..Len(trace) :
           \/ j \in SeqRange(popped)
           \/ \E i \in 1..Len(translationQueue) : translationQueue[i].seq = j
      /\ Increasing(popped)
      /\ drains = {} => translationQueue = << >> /\ ~processingQueue

\* the translation of a segment failed and two later segments were translated
C3_LaterProduced ==
  \E k \in 1..Len(trace) :
    /\ TranslateFailed(k)
    /\ \E i, j \in 1..Len(translations) :
         i < j /\ k < translations[i].seq

\* C4: every accepted segment is popped and handed to translateWithGemini
\* exactly once, eventually (given that network calls return or fail: as a
\* segment once accepted stays accepted and once popped stays popped, "k is
\* eventually popped once accepted" is "again and again, k is not accepted
\* or is popped"), and
\* no step (a click on Stop included) takes a segment out of the buffer other
\* than by popping it or abandons a segment in flight: the loop that awaits
\* it awaits it still, or has gone on to a later await or to the end of the
\* buffer.
C4_ConsumedExactlyOnce ==
  /\ [](\A k \in 1..Len(trace) :
          /\ Occurrences(popped, k) <= 1
          /\ Occurrences(trace[k], EvTranslate) = Occurrences(popped, k))
  /\ \A k \in 1..(MaxSeg + 1) : []<>(Len(trace) >= k => k \in SeqRange(popped))
  /\ [][ /\ \A i \in 1..Len(translationQueue) :
              \/ translationQueue[i].seq \in SeqRange(popped')
              \/ \E j \in 1..Len(translationQueue') :
                   translationQueue'[j] = translationQueue[i]
         /\ \A fr \in drains :
              \/ fr \in drains'
              \/ \E next \in drains' : next \notin drains
              \/ drains' = {} /\ translationQueue' = << >> /\ ~processingQueue' ]_vars

\* recognition is being stopped while a segment is in flight and another
\* waits in the buffer
C4_StoppedWithPending ==
  /\ recState = "stopping"
  /\ isRecognizing
  /\ drains # {}
  /\ translationQueue # << >>

\* C5: the draining flag is set exactly while a processQueue call is
\* suspended, and whenever it is clear the buffer is empty.
C5_NoStrandedSegment ==
  /\ processingQueue <=> drains # {}
  /\ ~processingQueue => translationQueue = << >>

\* a drain loop ran to the end (segment 1, without a key) and a later
\* enqueue started a new one (segment 2, in flight)
C5_Restarted ==
  /\ Len(trace) >= 2
  /\ HasEvent(trace[1], MissingKey)
  /\ \E fr \in drains : fr.chunk.seq = 2

\* what is done for a segment on the missing-credential path
MissingKeyTrace(text) == << EvEnqueue(text), Translating, EvTranslate, MissingKey >>

\* C6: when translateWithGemini is invoked for a segment while no API key
\* is configured, no request is made, one "Missing Gemini API Key" status is
\* issued, no translation is recorded, and the loop goes on to the end of the
\* buffer.
C6_MissingCredentialPath ==
  [][ \A k \in 1..Len(trace') :
        ( /\ apiKey = NoKey
          /\ HasEvent(trace'[k], EvTranslate)
          /\ k <= Len(trace) => ~HasEvent(trace[k], EvTranslate) )
        => /\ trace'[k] = MissingKeyTrace(Tail(trace'[k][1]))
           /\ \A i \in 1..Len(translations') : translations'[i].seq # k
           /\ drains' = {} => translationQueue' = << >> /\ ~processingQueue' ]_vars

\* the same path, for the key the drain loop reads (the apiKey of the render
\* whose enqueueTranslation started the loop)
MissingKeyPathOfTheKeyRead ==
  \A k \in 1..Len(trace) :
    HasEvent(trace[k], MissingKey) =>
      /\ trace[k] = MissingKeyTrace(TextOf(k))
      /\ \A i \in 1..Len(translations) : translations[i].seq # k

\* C7: a failure of the speech request of a segment is followed, for that
\* segment, by a status update that reports the failure.
C7_SpeechFailureReported ==
  \A k \in 1..Len(trace) :
    \A i \in 1..Len(trace[k]) :
      trace[k][i] = EvTtsError =>
        \E j \in (i + 1)..Len(trace[k]) : trace[k][j][1] = "Error: "

\* the rest of C7: the failure is the last thing done for the segment, and
\* the loop goes on
SpeechFailureContained ==
  \A k \in 1..Len(trace) :
    HasEvent(trace[k], EvTtsError) =>
      /\ trace[k][Len(trace[k])] = EvTtsError
      /\ \A fr \in drains : fr.chunk.seq # k
      /\ drains = {} => translationQueue = << >> /\ ~processingQueue

\* C8: no segment with empty or whitespace-only text is ever accepted into
\* the buffer (or handed to a stage).
C8_BlankIsNoOp == \A k \in 1..Len(trace) : Truthy(Trim(TextOf(k)))

\* C9: every buffer handed to addPCM16 goes to a streamer whose resume() has
\* succeeded.
C9_ResumedBeforeFeed == \A i \in 1..Len(fed) : fed[i].resumed

\* C10: at most one AudioStreamer is ever constructed.
C10_OneStreamer == Len(streamers) <= 1

RECURSIVE Flatten(_)
Flatten(qs) == IF qs = << >> THEN << >> ELSE Head(qs) \o Flatten(Tail(qs))

IsFinalEntry(res) == res.isFinal

IsInterimEntry(res) == ~res.isFinal

TranscriptsOf(entries) == [i \in 1..Len(entries) |-> entries[i].transcript]

\* the entries of an event from resultIndex on
EntriesOf(event) == SubSeq(event.results, event.resultIndex + 1, Len(event.results))

\* the text of the final entries of an event, in index order
FinalTextOf(event) ==
  Trim(JoinSpace(TranscriptsOf(SelectSeq(EntriesOf(event), IsFinalEntry))))

\* the text of the interim entries of an event, in index order
InterimTextOf(event) == Flatten(TranscriptsOf(SelectSeq(EntriesOf(event), IsInterimEntry)))

\* C13: whatever event rec.onresult handles, with a non-blank text of its
\* final entries (index >= resultIndex, in index order) exactly one segment
\* with that text is enqueued, that text and a newline are appended to the
\* final transcript and the interim display is cleared; otherwise nothing is
\* enqueued, the final transcript is unchanged and the interim display
\* becomes the interim text of this event alone.
C13_LiveAdapter ==
  [][ \A event \in RecognitionEvents(LiveMaxResults) :
        RecOnResult(event, LiveMaxSeg) =>
          IF Truthy(FinalTextOf(event))
          THEN /\ Len(trace') = Len(trace) + 1
               /\ Tail(trace'[Len(trace')][1]) = FinalTextOf(event)
               /\ finalTranscript' = finalTranscript \o FinalTextOf(event) \o << "\n" >>
               /\ interimTranscript' = << >>
          ELSE /\ trace' = trace
               /\ translationQueue' = translationQueue
               /\ finalTranscript' = finalTranscript
               /\ interimTranscript' = InterimTextOf(event) ]_vars

\* an event with two final entries was taken as one segment, and a later
\* event with interim text only replaced the interim display
C13_FinalThenInterim ==
  /\ finalTranscript = << "a", " ", "a", "\n" >>
  /\ Len(trace) = 1
  /\ TextOf(1) = << "a", " ", "a" >>
  /\ interimTranscript = << "a" >>

\* C11: once the streamer has been created and resumed and no
\* initAudioStreamer call is pending, a device selected in the output
\* selector (before the streamer existed or while it was being created) is
\* the sink of the streamer.
C11_SelectionRemembered ==
  ( /\ audioStreamerRef # 0
    /\ inits = << >>
    /\ streamers[audioStreamerRef].resumed
    /\ Truthy(selectedOutputDeviceId) )
  => streamers[audioStreamerRef].sink = selectedOutputDeviceId

\* C12: once the streamer exists, every change of the selection in the
\* output selector, to any of its entries, makes the selected entry the sink
\* of the streamer.
C12_EverySelectionApplied ==
  [][ (audioStreamerRef # 0 /\ selectedOutputDeviceId' # selectedOutputDeviceId)
      => streamers'[audioStreamerRef].sink = selectedOutputDeviceId' ]_vars

\* the same for the entries that name a device
SelectionOfADeviceApplied ==
  [][ ( /\ audioStreamerRef # 0
        /\ selectedOutputDeviceId' # selectedOutputDeviceId
        /\ Truthy(selectedOutputDeviceId') )
      => streamers'[audioStreamerRef].sink = selectedOutputDeviceId' ]_vars

\* the devices of the last enumeration that succeeded
RECURSIVE LastOkDevices(_)
LastOkDevices(log) ==
  IF log = << >> THEN << >>
  ELSE IF log[Len(log)].outcome = "ok" THEN log[Len(log)].devices
       ELSE LastOkDevices(SubSeq(log, 1, Len(log) - 1))

\* C17: the stored lists are always those of the last enumeration that
\* succeeded, whatever failed since; and a step in which an enumeration fails
\* or finds enumeration unsupported sets the status of that condition and
\* leaves both lists as they were.
C17_FailureKeepsLists ==
  /\ [](/\ inputDevices = InputsOf(LastOkDevices(refreshLog))
        /\ outputDevices = OutputsOf(LastOkDevices(refreshLog)))
  /\ [][ ( /\ Len(refreshLog') = Len(refreshLog) + 1
           /\ refreshLog'[Len(refreshLog')].outcome # "ok" )
         => /\ status' = IF refreshLog'[Len(refreshLog')].outcome = "failed"
                         THEN EnumerationError ELSE Unsupported
            /\ inputDevices' = inputDevices
            /\ outputDevices' = outputDevices ]_vars

\* an enumeration failed after one that had found devices
C17_FailedAfterFound ==
  /\ Len(refreshLog) = 2
  /\ refreshLog[1].outcome = "ok"
  /\ refreshLog[2].outcome = "failed"
  /\ Len(outputDevices) = 2
  /\ Len(inputDevices) = 1
  /\ status = EnumerationError

\* the indexes (from 0) of the sentences that are not blank, in order
UnitIndexes(sentences) ==
  LET NotBlank(i) == Truthy(Trim(sentences[i + 1]))
  IN SelectSeq([i \in 1..Len(sentences) |-> i - 1], NotBlank)

IndexesOf(entries) == [i \in 1..Len(entries) |-> entries[i].index]

\* C14: of every import, the callbacks that ran followed by those still
\* pending are the non-blank sentences, each once, in document order; each
\* callback enqueued its sentence, trimmed, as a segment of its own; the
\* segments of one import entered the buffer in document order and their
\* translations are listed in document order.
C14_ImportInOrder ==
  /\ Len(timers) = Len(importLog)
  /\ \A b \in 1..Len(importLog) :
       LET sentences == importLog[b].sentences
           fired == importLog[b].fired
       IN /\ IndexesOf(fired) \o IndexesOf(timers[b]) = UnitIndexes(sentences)
          /\ \A i \in 1..Len(fired) :
               TextOf(fired[i].seq) = Trim(sentences[fired[i].index + 1])
          /\ \A i, j \in 1..Len(fired) :
               i < j =>
                 /\ fired[i].seq < fired[j].seq
                 /\ \A x, y \in 1..Len(translations) :
                      ( /\ translations[x].seq = fired[i].seq
                        /\ translations[y].seq = fired[j].seq ) => x < y

\* two imports overlapped: a sentence of the second was enqueued between two
\* sentences of the first, and both sentences of the first were translated
C14_TwoImportsInterleaved ==
  /\ Len(importLog) = 2
  /\ Len(importLog[1].fired) = 2
  /\ \E n \in 1..Len(importLog[2].fired) :
       /\ importLog[1].fired[1].seq < importLog[2].fired[n].seq
       /\ importLog[2].fired[n].seq < importLog[1].fired[2].seq
  /\ \E x, y \in 1..Len(translations) :
       /\ translations[x].seq = importLog[1].fired[1].seq
       /\ translations[y].seq = importLog[1].fired[2].seq

IsSpeech(line) == line.role = "speech"

\* the lines of speech of a document, trimmed, joined by single spaces
SpeechOf(lines) ==
  LET speech == SelectSeq(lines, IsSpeech)
  IN JoinSpace([i \in 1..Len(speech) |-> Trim(speech[i].text)])

\* C15: for every cue-formatted document parseVTT returns its lines of
\* speech, trimmed, in document order, joined by single spaces, and nothing
\* else; for the example of the specification that is
\* "Hello there. How are you?".
C15_ParseKeepsSpeech ==
  parsed # None =>
    /\ parsed[1] = SpeechOf(document)
    /\ document = ExampleDocument => parsed[1] = ExampleText

\* the example alone
ParseOfTheExample ==
  (parsed # None /\ document = ExampleDocument) => parsed[1] = ExampleText

\* a line of speech that parseVTT takes for a header, a note, a cue index or
\* a timing line
LooksLikeMarkup(text) ==
  \/ StartsWith(Trim(text), << "W", "E", "B", "V", "T", "T" >>)
  \/ StartsWith(Trim(text), << "N", "O", "T", "E" >>)
  \/ Includes(Trim(text), << "-", "-", ">" >>)
  \/ AllDigits(Trim(text))

\* the claim for documents none of whose lines of speech looks like markup
ParseOfPlainSpeech ==
  ( /\ parsed # None
    /\ \A i \in 1..Len(document) :
         document[i].role = "speech" => ~LooksLikeMarkup(document[i].text) )
  => parsed[1] = SpeechOf(document)

\* a part with inline data whose media type begins with "audio"
HasAudioType(part) ==
  /\ part.inlineData
  /\ Len(part.mimeType) >= 5
  /\ SubSeq(part.mimeType, 1, 5) = << "a", "u", "d", "i", "o" >>

\* the addPCM16 calls a response to the speech request of segment seq is to
\* cause: one per audio part, in the order of the parts
ExpectedFed(seq, parts) ==
  IF parts = None THEN << >>
  ELSE LET IsAudioAt(i) == HasAudioType(parts[1][i])
           at == SelectSeq([i \in 1..Len(parts[1]) |-> i], IsAudioAt)
       IN [n \in 1..Len(at) |->
             [seq |-> seq, part |-> at[n], sid |-> audioStreamerRef,
              resumed |-> streamers[audioStreamerRef].resumed,
              bytes |-> parts[1][at[n]].bytes]]

\* C16: whatever response the speech request of a segment returns,
\* speakWithGemini hands to addPCM16 of the streamer its parts with inline data of an audio media type, each once, in the order of
\* the response, and nothing else; with no such part, or no parts, nothing is
\* handed over and no error is reported.
C16_FeedsAudioPartsInOrder ==
  [][ \A fr \in drains, parts \in SpeechResponses :
        SpeakResolves(fr, parts) =>
          /\ fed' = fed \o ExpectedFed(fr.chunk.seq, parts)
          /\ ~HasEvent(trace'[fr.chunk.seq], EvTtsError)
          /\ status' \in {Translating, Idle} ]_vars

\* of a response of three parts, the first and the third were handed over
C16_SkippedMiddlePart ==
  \E i \in 1..Len(fed) :
    /\ i < Len(fed)
    /\ fed[i].seq = fed[i + 1].seq
    /\ fed[i].part = 1
    /\ fed[i + 1].part = 3

\* the chunks of whole samples handed to streamer sid, in order
WholeChunks(sid) ==
  LET IsWhole(f) == f.sid = sid /\ f.bytes % 2 = 0
  IN SelectSeq(fed, IsWhole)

\* C19: of every streamer, the first buffer starts at 0, every other buffer
\* starts exactly where the one before it ends (so never before it), the
\* cursor is the end of the last buffer, and the buffers are the well-formed
\* chunks handed over, in order, each with its duration.
C19_Gapless ==
  \A sid \in 1..Len(streamers) :
    LET buffers == Schedule(sid).buffers
        chunks == WholeChunks(sid)
    IN /\ Len(buffers) = Len(chunks)
       /\ \A n \in 1..Len(buffers) : buffers[n].duration = chunks[n].bytes \div 2
       /\ buffers # << >> => buffers[1].startTime = 0
       /\ \A n \in 1..(Len(buffers) - 1) :
            /\ buffers[n + 1].startTime = buffers[n].startTime + buffers[n].duration
            /\ buffers[n + 1].startTime >= buffers[n].startTime + buffers[n].duration
       /\ Schedule(sid).cursor =
            IF buffers = << >> THEN 0
            ELSE buffers[Len(buffers)].startTime + buffers[Len(buffers)].duration

\* three buffers of durations 1, 2, 1 start at 0, 1 and 3, and a malformed
\* chunk handed over among them was skipped
C19_ThreeBuffers ==
  \E sid \in 1..Len(streamers) :
    /\ Len(Schedule(sid).buffers) >= 3
    /\ Schedule(sid).buffers[1] = [startTime |-> 0, duration |-> 1]
    /\ Schedule(sid).buffers[2] = [startTime |-> 1, duration |-> 2]
    /\ Schedule(sid).buffers[3] = [startTime |-> 3, duration |-> 1]
    /\ \E n \in 1..Len(fed) : fed[n].sid = sid /\ fed[n].bytes = 3

\* a segment is in the pipeline only when the streamer has been created
StreamerBeforeSegments ==
  (drains # {} \/ translationQueue # << >>) => audioStreamerRef # 0

\* a step in which start() is called on the recognition object
StartCalled == recState' = "starting" /\ recState # "starting"

\* a step that runs startRecording: the click, or the return of the
\* initAudioStreamer call the click is waiting for
StartRecordingRuns ==
  \/ clicks'.starts = clicks.starts + 1
  \/ \E i \in 1..Len(inits) : inits[i].caller = "start" /\ inits' = RemoveAt(inits, i)

\* C18: rec.onerror changes the status to "Speech error: <code>" and nothing
\* else; neither rec.onerror nor rec.onend changes translationQueue,
\* processingQueue or translations, and neither calls start(); start() is
\* called only in a step of startRecording.
C18_ErrorIsStatusOnly ==
  /\ [][ \A code \in {"no-speech"} :
           RecOnError(code) =>
             /\ status' = << "Speech error: ", code >>
             /\ UNCHANGED << apiKey, selectedOutputDeviceId, extraVars, pipeRest,
                             audioVars, recognitionRef, isRecognizing, zoomVars >> ]_vars
  /\ [][ (RecOnEnd \/ \E code \in {"no-speech"} : RecOnError(code)) =>
           /\ UNCHANGED << translationQueue, processingQueue, translations, drains >>
           /\ ~StartCalled
           /\ recState' \notin {"starting", "running"} ]_vars
  /\ [][ StartCalled => StartRecordingRuns ]_vars

\* onerror has just run in a session started by the second click on Start,
\* while a segment is in flight and another is waiting
C18_ErrorWhileDraining ==
  /\ status = << "Speech error: ", "no-speech" >>
  /\ recState = "stopping"
  /\ clicks.starts = 2
  /\ processingQueue
  /\ translationQueue # << >>

\* the places of event ev in the trace tr of a segment
PlacesOf(tr, ev) == {i \in 1..Len(tr) : tr[i] = ev}

\* in the trace of a segment: translateWithGemini, then the recording of its
\* result, then speakWithGemini, then the addPCM16 calls
StagesInOrder(k) ==
  LET tr == trace[k]
  IN /\ Cardinality(PlacesOf(tr, EvSpeak)) <= 1
     /\ \A s \in PlacesOf(tr, EvSpeak) :
          /\ \E t \in PlacesOf(tr, EvNetTranslate), r \in PlacesOf(tr, EvResult) :
               t < r /\ r < s
          /\ ~HasEvent(tr, EvTranslateError)
          /\ ~HasEvent(tr, MissingKey)
          /\ \E e \in SeqRange(translations) :
               e.seq = k /\ Truthy(e.translated) /\ Trim(e.translated) = e.translated
     /\ \A f \in PlacesOf(tr, EvFed) : \E s \in PlacesOf(tr, EvSpeak) : s < f

\* C20: for every segment, speakWithGemini is called at most once, after
\* translateWithGemini returned for that segment a text that is not blank
\* (never after null, a blank text or an error), and after that text was
\* recorded in translations; addPCM16 is called for a segment only while it is
\* the last segment popped, and while a stage of a segment is awaited no other
\* segment has been popped after it.
C20_StageOrder ==
  /\ [](\A k \in 1..Len(trace) : StagesInOrder(k))
  /\ [](\A fr \in drains : popped[Len(popped)] = fr.chunk.seq)
  /\ [][ \A fr \in drains, resp \in ResponseTexts :
           TranslateResolves(fr, resp) =>
             (HasEvent(trace'[fr.chunk.seq], EvSpeak)
                <=> (resp # None /\ Trim(resp[1]) # << >>)) ]_vars
  /\ [][ \A fr \in drains, m \in ErrorMessages :
           TranslateRejects(fr, m) => ~HasEvent(trace'[fr.chunk.seq], EvSpeak) ]_vars
  /\ [][ \A n \in (Len(fed) + 1)..Len(fed') :
           popped # << >> /\ fed'[n].seq = popped[Len(popped)] ]_vars

\* one segment's translation came back empty or failed and it was never
\* spoken, an earlier or later one was spoken and its audio fed, and a
\* segment was popped after that
C20_SpokenAndSkipped ==
  \E k, m, j \in 1..Len(trace) :
    /\ HasEvent(trace[k], EvFed)
    /\ HasEvent(trace[m], EvNetTranslate)
    /\ ~HasEvent(trace[m], EvSpeak)
    /\ k < j /\ m < j
    /\ j \in SeqRange(popped)

\* how often "Missing Gemini API Key" was set for segment k so far
MissingKeyCount(tr, k) == IF k <= Len(tr) THEN Occurrences(tr[k], MissingKey) ELSE 0

\* C21: translateWithGemini takes the missing-credential path for a segment
\* of the recognition only while the API key field is empty: a step in which
\* "Missing Gemini API Key" is set for a segment is a step with apiKey empty.
C21_CurrentKeyUsed ==
  [][ \A k \in 1..Len(trace') :
        MissingKeyCount(trace', k) > MissingKeyCount(trace, k) => ~Truthy(apiKey) ]_vars

\* the key a drain loop works with is the key of the render in which the
\* recognition object was created
KeyOfTheRecognitionUsed ==
  /\ \A fr \in drains : recognitionRef # None /\ fr.key = recognitionRef[1].key
  /\ [][ \A k \in 1..Len(trace') :
           MissingKeyCount(trace', k) > MissingKeyCount(trace, k)
             => recognitionRef # None /\ ~Truthy(recognitionRef[1].key) ]_vars

\* the enumeration started last among those that have ended
NewestRefresh(log) ==
  CHOOSE e \in SeqRange(log) : \A o \in SeqRange(log) : o.id <= e.id

\* C22: when no enumeration is in flight and the one started last succeeded,
\* the stored lists are those it returned, in whatever order the
\* enumerations completed.
C22_NewestRefreshWins ==
  ( /\ enumerations = << >>
    /\ refreshLog # << >>
    /\ NewestRefresh(refreshLog).outcome = "ok" )
  => /\ inputDevices = InputsOf(NewestRefresh(refreshLog).devices)
     /\ outputDevices = OutputsOf(NewestRefresh(refreshLog).devices)

\* the lists are those of the enumeration that completed last, whenever it
\* was started
LastCompletedRefreshWins ==
  ( refreshLog # << >> /\ refreshLog[Len(refreshLog)].outcome = "ok" )
  => /\ inputDevices = InputsOf(refreshLog[Len(refreshLog)].devices)
     /\ outputDevices = OutputsOf(refreshLog[Len(refreshLog)].devices)

====
